---- MODULE Spec2Model ----
(***************************************************************************)
(* Model of the invoice server actions of the dashboard application:       *)
(* createInvoice, updateInvoice and deleteInvoice, in the two revisions    *)
(* the repository carries (src/unnamed/part_003, the revision whose        *)
(* handlers return a message, and src/unnamed/part_004, the revision with  *)
(* safeParse, the State type and handlers that rethrow).                   *)
(*                                                                         *)
(* Strings that the code inspects are sequences of one-character strings,  *)
(* so that coercion and comparison are computed and not assumed.           *)
(***************************************************************************)
EXTENDS Integers, Sequences, FiniteSets, TLC

(***************************************************************************)
(* Bounds of the model.                                                    *)
(***************************************************************************)
\* number of invocations a behaviour starts
MaxInvocations == 2
\* the largest amount, in cents, that the edit-form scenario submits
MaxCents == 500
\* record identifiers that a caller may bind to updateInvoice/deleteInvoice
\* beyond the rows the store can hold (identifiers that match no row)
ExtraIds == 1

(***************************************************************************)
(* Strings.                                                                *)
(***************************************************************************)
Str_empty == << >>
Str_c1 == <<"c", "1">>
Str_c0 == <<"c", "0">>
Str_pending == <<"p", "e", "n", "d", "i", "n", "g">>
Str_paid == <<"p", "a", "i", "d">>
Str_draft == <<"d", "r", "a", "f", "t">>
Str_0 == <<"0">>
Str_50 == <<"5", "0">>
Str_neg5 == <<"-", "5">>
Str_abc == <<"a", "b", "c">>
Str_4_35 == <<"4", ".", "3", "5">>
Str_49_99 == <<"4", "9", ".", "9", "9">>

DigitChars == {"0", "1", "2", "3", "4", "5", "6", "7", "8", "9"}

DigitVal(ch) ==
    CASE ch = "0" -> 0 [] ch = "1" -> 1 [] ch = "2" -> 2 [] ch = "3" -> 3
      [] ch = "4" -> 4 [] ch = "5" -> 5 [] ch = "6" -> 6 [] ch = "7" -> 7
      [] ch = "8" -> 8 [] ch = "9" -> 9

(***************************************************************************)
(* FormData.  A form is a function from the names of its entries to their  *)
(* string values; get() answers null for a name that has no entry.         *)
(***************************************************************************)
Null == [t |-> "null", v |-> << >>]
StringValue(s) == [t |-> "string", v |-> s]

FormDataGet_EmptyWhenAbsent(formData, name) ==
    IF name \in DOMAIN formData THEN StringValue(formData[name]) ELSE StringValue(Str_empty)

FormDataGet(formData, name) ==
    IF name \in DOMAIN formData THEN StringValue(formData[name]) ELSE Null

(***************************************************************************)
(* Number(value), the coercion z.coerce.number() applies to its input.     *)
(* A number is kept as the decimal it denotes: (-1)^neg * m / 10^s, or     *)
(* NaN, or an infinity.  Exponent, hexadecimal, octal and binary literals  *)
(* lie outside the alphabet of the amounts this model submits.             *)
(***************************************************************************)
NaN == [k |-> "nan", neg |-> FALSE, m |-> 0, s |-> 0]
Num(neg, m, s) == [k |-> "num", neg |-> neg, m |-> m, s |-> s]
Infinity(neg) == [k |-> "inf", neg |-> neg, m |-> 0, s |-> 0]
Str_Infinity == <<"I", "n", "f", "i", "n", "i", "t", "y">>

RECURSIVE TrimStart(_)
TrimStart(s) ==
    IF s # << >> /\ Head(s) = " " THEN TrimStart(Tail(s)) ELSE s

RECURSIVE TrimEnd(_)
TrimEnd(s) ==
    IF s # << >> /\ s[Len(s)] = " " THEN TrimEnd(SubSeq(s, 1, Len(s) - 1)) ELSE s

IsDigits(s) == \A i \in 1..Len(s) : s[i] \in DigitChars

RECURSIVE DigitsValue(_)
DigitsValue(s) ==
    IF s = << >> THEN 0
    ELSE 10 * DigitsValue(SubSeq(s, 1, Len(s) - 1)) + DigitVal(s[Len(s)])

\* the unsigned part of a StrDecimalLiteral: digits, digits., digits.digits, .digits
UnsignedDecimal(neg, s) ==
    IF s = Str_Infinity THEN Infinity(neg)
    ELSE LET dots == {i \in 1..Len(s) : s[i] = "."}
         IN  IF dots = {}
             THEN IF s # << >> /\ IsDigits(s) THEN Num(neg, DigitsValue(s), 0) ELSE NaN
             ELSE LET d == CHOOSE i \in dots : \A j \in dots : i <= j
                      int == SubSeq(s, 1, d - 1)
                      frac == SubSeq(s, d + 1, Len(s))
                  IN  IF IsDigits(int) /\ IsDigits(frac) /\ Len(int) + Len(frac) > 0
                      THEN Num(neg, DigitsValue(int \o frac), Len(frac))
                      ELSE NaN

StringToNumber(str) ==
    LET s == TrimEnd(TrimStart(str))
    IN  IF s = << >> THEN Num(FALSE, 0, 0)
        ELSE IF Head(s) = "-" THEN UnsignedDecimal(TRUE, Tail(s))
        ELSE IF Head(s) = "+" THEN UnsignedDecimal(FALSE, Tail(s))
        ELSE UnsignedDecimal(FALSE, s)

\* Number(null) is 0; Number(string) parses the string
Number(value) ==
    IF value.t = "null" THEN Num(FALSE, 0, 0) ELSE StringToNumber(value.v)

GreaterThanZero_OrEqual(n) ==
    \/ n.k = "inf" /\ ~n.neg
    \/ n.k = "num" /\ (~n.neg \/ n.m = 0)

GreaterThanZero(n) ==
    \/ n.k = "inf" /\ ~n.neg
    \/ n.k = "num" /\ ~n.neg /\ n.m > 0

(***************************************************************************)
(* The zod schemas.  Each field parser answers the issues it raises and    *)
(* the value it yields; an object parser runs every field parser and       *)
(* gathers all their issues.                                               *)
(***************************************************************************)
Issue(path, code, message) == [path |-> path, code |-> code, message |-> message]

MsgCustomer == "Please select a customer."
MsgAmount == "Please enter an amount greater than $0."
MsgStatus == "Please select an invoice status."
MsgExpectedString == "Expected string, received null"
MsgExpectedNumber == "Expected number, received nan"
MsgInvalidEnum == "Invalid enum value. Expected 'pending' | 'paid'"

\* the two revisions of the schema differ in the messages and in gt(0)
CustomMessages(file) == file = "part_004"
AmountHasGt0_Nowhere(file) == FALSE

AmountHasGt0(file) == file = "part_004"

\* z.string({invalid_type_error})
ParseCustomerId(file, value) ==
    IF value.t = "string" THEN << >>
    ELSE << Issue("customerId", "invalid_type",
                  IF CustomMessages(file) THEN MsgCustomer ELSE MsgExpectedString) >>

\* z.coerce.number().gt(0, {message}): a NaN fails the type check and the
\* checks of the number are not run
ParseAmount(file, value) ==
    LET n == Number(value)
    IN  IF n.k = "nan" THEN << Issue("amount", "invalid_type", MsgExpectedNumber) >>
        ELSE IF AmountHasGt0(file) /\ ~GreaterThanZero(n)
             THEN << Issue("amount", "too_small", MsgAmount) >>
             ELSE << >>

\* z.enum(['pending', 'paid'], {invalid_type_error})
ParseStatus(file, value) ==
    IF value.t # "string"
    THEN << Issue("status", "invalid_type",
                  IF CustomMessages(file) THEN MsgStatus
                  ELSE "Expected 'pending' | 'paid', received null") >>
    ELSE IF value.v \in {Str_pending, Str_paid} THEN << >>
         ELSE << Issue("status", "invalid_enum_value", MsgInvalidEnum) >>

\* z.string(), the parser of the id and date fields of FormSchema
ParseString(name, value) ==
    IF value.t = "string" THEN << >>
    ELSE IF value.t = "undefined" THEN << Issue(name, "invalid_type", "Required") >>
    ELSE << Issue(name, "invalid_type", MsgExpectedString) >>

\* the parser FormSchema declares for a field
ParseField(file, name, value) ==
    CASE name = "customerId" -> ParseCustomerId(file, value)
      [] name = "amount" -> ParseAmount(file, value)
      [] name = "status" -> ParseStatus(file, value)
      [] OTHER -> ParseString(name, value)

\* the keys of z.object({id, customerId, amount, status, date}), in order
FormSchema(file) == <<"id", "customerId", "amount", "status", "date">>

\* schema.omit({...}): the shape without the keys named
RECURSIVE omit(_, _)
omit(shape, keys) ==
    IF shape = << >> THEN << >>
    ELSE IF Head(shape) \in keys THEN omit(Tail(shape), keys)
         ELSE <<Head(shape)>> \o omit(Tail(shape), keys)

\* an update schema that omits the id only, and so still declares the date
UpdateInvoice_OmitsIdOnly(file) == omit(FormSchema(file), {"id"})

CreateInvoice(file) == omit(FormSchema(file), {"id", "date"})
UpdateInvoice(file) == omit(FormSchema(file), {"id", "date"})

\* the schema a function validates with
SchemaOf(file, op) ==
    IF op = "updateInvoice" THEN UpdateInvoice(file) ELSE CreateInvoice(file)

\* a property of the object handed to the schema; undefined when it has none
UndefinedValue == [t |-> "undefined", v |-> << >>]
InputGet(input, name) == IF name \in DOMAIN input THEN input[name] ELSE UndefinedValue

\* an object parser that stops at the first field that raises an issue
RECURSIVE ObjectIssues_FirstOnly(_, _, _)
ObjectIssues_FirstOnly(file, shape, input) ==
    IF shape = << >> THEN << >>
    ELSE IF ParseField(file, Head(shape), InputGet(input, Head(shape))) # << >>
         THEN ParseField(file, Head(shape), InputGet(input, Head(shape)))
         ELSE ObjectIssues_FirstOnly(file, Tail(shape), input)

\* the object parser: every field of the shape is parsed, in the order of the
\* shape, and all issues are gathered
RECURSIVE ObjectIssues(_, _, _)
ObjectIssues(file, shape, input) ==
    IF shape = << >> THEN << >>
    ELSE ParseField(file, Head(shape), InputGet(input, Head(shape)))
             \o ObjectIssues(file, Tail(shape), input)

NoData == [customerId |-> << >>, amount |-> NaN, status |-> << >>]

\* the result of safeParse used without looking at its success flag
safeParse_Unchecked(file, shape, input) ==
    [success |-> TRUE, issues |-> << >>,
     data |-> [customerId |-> input.customerId.v,
               amount |-> Number(input.amount),
               status |-> input.status.v]]

\* safeParse: success with the coerced data, or failure with the issues
safeParse(file, shape, input) ==
    LET issues == ObjectIssues(file, shape, input)
    IN  IF issues = << >>
        THEN [success |-> TRUE, issues |-> << >>,
              data |-> [customerId |-> input.customerId.v,
                        amount |-> Number(input.amount),
                        status |-> input.status.v]]
        ELSE [success |-> FALSE, issues |-> issues, data |-> NoData]

FieldNames == {"customerId", "amount", "status"}

RECURSIVE SelectMessages(_, _)
SelectMessages(issues, name) ==
    IF issues = << >> THEN << >>
    ELSE IF Head(issues).path = name
         THEN <<Head(issues).message>> \o SelectMessages(Tail(issues), name)
         ELSE SelectMessages(Tail(issues), name)

\* the field errors read from the form-level list, which object issues never fill
flattenFieldErrors_FormLevel(issues) ==
    LET names == {issues[i].path : i \in 1..Len(issues)}
    IN  [name \in {n \in names : n = ""} |-> SelectMessages(issues, name)]

\* error.flatten().fieldErrors: the messages of the issues grouped by the
\* first element of their path; a field without issue has no entry
flattenFieldErrors(issues) ==
    LET names == {issues[i].path : i \in 1..Len(issues)}
    IN  [name \in names |-> SelectMessages(issues, name)]

(***************************************************************************)
(* amount * 100 in IEEE-754 double arithmetic.  The amount is the double   *)
(* nearest to the decimal c/100 (c a whole number of cents); the product   *)
(* is the exact product of that double and 100, rounded to 53 bits.  With  *)
(* N = c * 2^E the scaled decimal (2^52 <= N/100 < 2^53), the double has   *)
(* mantissa M = round(N / 100), so 100 * M = N + d with d determined by    *)
(* N mod 100, and rounding N + d to 53 bits gives N, N - G or N + G where  *)
(* G is the spacing of doubles at N (2^6 below 2^59, else 2^7).  The       *)
(* result is c + ulps * G / 2^E: the whole number c when ulps = 0, and a   *)
(* neighbouring non-integer double otherwise.                              *)
(***************************************************************************)
RECURSIVE Pow(_, _)
Pow(b, e) == IF e = 0 THEN 1 ELSE b * Pow(b, e - 1)

RECURSIVE PowMod(_, _, _)
PowMod(b, e, n) == IF e = 0 THEN 1 % n ELSE (b * PowMod(b, e - 1, n)) % n

\* the least T >= 0 with c * 2^T >= 100, for 0 < c < 100
RECURSIVE ExponentUp(_, _)
ExponentUp(c, T) == IF c * Pow(2, T) >= 100 THEN T ELSE ExponentUp(c, T + 1)

\* the least n >= 0 with c < 200 * 2^n, for c >= 100
RECURSIVE ExponentDown(_, _)
ExponentDown(c, n) == IF c < 200 * Pow(2, n) THEN n ELSE ExponentDown(c, n + 1)

\* the T with 100 <= c * 2^T < 200, for c > 0
BinaryExponent(c) == IF c < 100 THEN ExponentUp(c, 0) ELSE 0 - ExponentDown(c, 0)

ProductUlps(c) ==
    LET T == BinaryExponent(c)
        E == 52 + T
        r == ((c % 100) * PowMod(2, E, 100)) % 100
        d == IF r < 50 THEN 0 - r ELSE 100 - r
        \* N compared with 2^59, that is c * 2^T compared with 128
        below == IF T >= 0 THEN c * Pow(2, T) < 128 ELSE c < 128 * Pow(2, 0 - T)
        at == IF T >= 0 THEN c * Pow(2, T) = 128 ELSE c = 128 * Pow(2, 0 - T)
        G == IF below \/ (at /\ d < 0) THEN 64 ELSE 128
    IN  IF 2 * d > G THEN 1 ELSE IF 2 * d < 0 - G THEN 0 - 1 ELSE 0

NoAmount == [k |-> "none", neg |-> FALSE, c |-> 0, ulps |-> 0]

\* amount * 100, for an amount of at most two fractional digits
Times100(n) ==
    IF n.k = "inf" THEN [k |-> "inf", neg |-> n.neg, c |-> 0, ulps |-> 0]
    ELSE LET c == n.m * Pow(10, 2 - n.s)
         IN  [k |-> "num", neg |-> n.neg, c |-> c,
              ulps |-> IF c = 0 THEN 0 ELSE ProductUlps(c)]

IsInteger(a) == a.k = "num" /\ a.ulps = 0

(***************************************************************************)
(* invoice.amount / 100, the division the edit form applies to the stored  *)
(* amount, and the string the form field then holds.  The stored amount is *)
(* (N + ulps * G) / 2^E with 100 * M = N + d as above, so the exact        *)
(* quotient is (M + (ulps * G - d) / 100) / 2^E and the double quotient    *)
(* has the mantissa M + off with off the integer nearest to                *)
(* (ulps * G - d) / 100: the double nearest to c/100 when off = 0.         *)
(***************************************************************************)
\* d, where 100 * M = N + d
ScaledRemainder(c) ==
    LET r == ((c % 100) * PowMod(2, 52 + BinaryExponent(c), 100)) % 100
    IN  IF r < 50 THEN 0 - r ELSE 100 - r

\* G, the spacing of the doubles at N in units of 2^-E
ProductSpacing(c) ==
    LET T == BinaryExponent(c)
        d == ScaledRemainder(c)
        below == IF T >= 0 THEN c * Pow(2, T) < 128 ELSE c < 128 * Pow(2, 0 - T)
        at == IF T >= 0 THEN c * Pow(2, T) = 128 ELSE c = 128 * Pow(2, 0 - T)
    IN  IF below \/ (at /\ d < 0) THEN 64 ELSE 128

\* division that rounds toward minus infinity
Nearest_Down(q, n) == q \div n

\* the integer nearest to q / n
RECURSIVE Nearest(_, _)
Nearest(q, n) ==
    IF 2 * q > n THEN Nearest(q - n, n) + 1
    ELSE IF 2 * q < 0 - n THEN Nearest(q + n, n) - 1
    ELSE 0

\* a / 100 for a stored amount a: the double nearest to c/100, off doubles up
Div100(a) ==
    [k |-> a.k, neg |-> a.neg, c |-> a.c,
     off |-> IF a.k # "num" \/ a.c = 0 THEN 0
             ELSE Nearest(a.ulps * ProductSpacing(a.c) - ScaledRemainder(a.c), 100)]

DigitChar(n) == CHOOSE ch \in DigitChars : DigitVal(ch) = n

RECURSIVE NatToString(_)
NatToString(n) ==
    IF n < 10 THEN <<DigitChar(n)>> ELSE NatToString(n \div 10) \o <<DigitChar(n % 10)>>

\* a decimal of 17 significant digits, which the model does not spell out
Str_17digits == <<"#">>

\* String(y): the shortest decimal that reads back as the double y
NumberToString(y) ==
    IF y.k # "num" THEN Str_Infinity
    ELSE IF y.off # 0 THEN Str_17digits
    ELSE (IF y.neg /\ y.c # 0 THEN <<"-">> ELSE << >>) \o
         NatToString(y.c \div 100) \o
         (IF y.c % 100 = 0 THEN << >>
          ELSE IF y.c % 10 = 0 THEN <<".", DigitChar((y.c % 100) \div 10)>>
          ELSE <<".", DigitChar((y.c % 100) \div 10), DigitChar(y.c % 10)>>)

(***************************************************************************)
(* The actions file: its two revisions, its three exported functions and   *)
(* the statements of their bodies.                                         *)
(***************************************************************************)
Files == {"part_003", "part_004"}
Ops == {"createInvoice", "updateInvoice", "deleteInvoice"}

\* the statement an invocation begins with
FirstStmt(op) == IF op = "deleteInvoice" THEN "write" ELSE "parse"

\* createInvoice and updateInvoice redirect right after the write
NextStmt_SkipsRevalidate(file, op, stmt) ==
    IF op = "deleteInvoice"
    THEN CASE stmt = "write" -> "revalidatePath"
           [] stmt = "revalidatePath" ->
                  IF file = "part_003" THEN "returnDeleted" ELSE "end"
    ELSE CASE stmt = "parse" -> "transform"
           [] stmt = "transform" -> "write"
           [] stmt = "write" -> "redirect"
           [] stmt = "revalidatePath" -> "redirect"

\* deleteInvoice ends with redirect, as the other two functions do
NextStmt_DeleteRedirects(file, op, stmt) ==
    IF op = "deleteInvoice"
    THEN CASE stmt = "write" -> "revalidatePath"
           [] stmt = "revalidatePath" -> "redirect"
    ELSE CASE stmt = "parse" -> "transform"
           [] stmt = "transform" -> "write"
           [] stmt = "write" -> "revalidatePath"
           [] stmt = "revalidatePath" -> "redirect"

\* the statement that follows one that completed normally; "end" is the end
\* of the function body, where the function returns undefined
NextStmt(file, op, stmt) ==
    IF op = "deleteInvoice"
    THEN CASE stmt = "write" -> "revalidatePath"
           [] stmt = "revalidatePath" ->
                  IF file = "part_003" THEN "returnDeleted" ELSE "end"
    ELSE CASE stmt = "parse" -> "transform"
           [] stmt = "transform" -> "write"
           [] stmt = "write" -> "revalidatePath"
           [] stmt = "revalidatePath" -> "redirect"

\* the whole body of createInvoice and updateInvoice wrapped in the try block
TryBlock_RedirectInside(file, op) ==
    CASE op = "deleteInvoice" -> {"write", "revalidatePath", "returnDeleted"}
      [] OTHER -> {"parse", "transform", "write", "revalidatePath", "redirect"}

\* the statements that lie inside the try block of the function
TryBlock(file, op) ==
    CASE op = "deleteInvoice" -> {"write", "revalidatePath", "returnDeleted"}
      [] op = "createInvoice" /\ file = "part_004" -> {"write"}
      [] OTHER -> {"parse", "transform", "write"}

InTry(file, op, stmt) == stmt \in TryBlock(file, op)

\* createInvoice of part_004 validates with safeParse and returns the field
\* errors; every other validation is parse, which throws a ZodError
UsesSafeParse(file, op) == file = "part_004" /\ op = "createInvoice"

(***************************************************************************)
(* Errors, results and the outcome the caller observes.                    *)
(***************************************************************************)
Error(name, text, issues) == [name |-> name, text |-> text, issues |-> issues]
NoError == Error("none", "", << >>)
ZodError(issues) == Error("ZodError", "validation", issues)
StoreError(text) == Error("PostgresError", text, << >>)
RevalidateError == Error("Error", "revalidatePath failed", << >>)
RedirectSignal == Error("NEXT_REDIRECT", "/dashboard/invoices", << >>)

Undefined == [undefined |-> TRUE]
NoOutcome == [kind |-> "none", value |-> Undefined, error |-> NoError]
Returned(value) == [kind |-> "returned", value |-> value, error |-> NoError]
Thrown(error) == [kind |-> "thrown", value |-> Undefined, error |-> error]

MsgMissingFields == "Missing Fields. Failed to Create Invoice."
MsgDeleted == "Invoice deleted successfully."

\* the message of the catch handler of part_003
DatabaseErrorMessage(op) ==
    CASE op = "createInvoice" -> "Database Error: Failed to Create Invoice."
      [] op = "updateInvoice" -> "Database Error: Failed to Update Invoice."
      [] op = "deleteInvoice" -> "Database Error: Failed to Delete Invoice."

\* what the catch handler does with the error it caught, after logging it:
\* part_003 returns a message, part_004 rethrows the error
CatchOutcome(file, op, error) ==
    IF file = "part_003"
    THEN Returned([message |-> DatabaseErrorMessage(op)])
    ELSE Thrown(error)

\* what createInvoice of part_004 returns when safeParse fails
ValidationFailure(issues) ==
    Returned([errors |-> flattenFieldErrors(issues), message |-> MsgMissingFields])

(***************************************************************************)
(* The invoices table behind the sql client.                               *)
(***************************************************************************)
Row(id, customerId, amount, status, date) ==
    [id |-> id, customer_id |-> customerId, amount |-> amount,
     status |-> status, date |-> date]

\* an INSERT that replaces the rows of the same customer
Insert_PerCustomer(rows, id, customerId, amount, status, date) ==
    {r \in rows : r.customer_id # customerId} \cup {Row(id, customerId, amount, status, date)}

\* INSERT INTO invoices (customer_id, amount, status, date) VALUES (...)
Insert(rows, id, customerId, amount, status, date) ==
    rows \cup {Row(id, customerId, amount, status, date)}

\* an UPDATE that inserts the row when no row has the id
Update_OrInsert(rows, id, customerId, amount, status) ==
    {r \in rows : r.id # id} \cup {Row(id, customerId, amount, status, "")}

\* UPDATE that sets customer_id and amount and leaves status as it is
Update_KeepsStatus(rows, id, customerId, amount, status) ==
    {IF r.id = id
     THEN [r EXCEPT !.customer_id = customerId, !.amount = amount]
     ELSE r : r \in rows}

\* UPDATE without its WHERE clause
Update_AllRows(rows, id, customerId, amount, status) ==
    {[r EXCEPT !.customer_id = customerId, !.amount = amount, !.status = status] :
        r \in rows}

\* UPDATE invoices SET customer_id = .., amount = .., status = .. WHERE id = ..
Update(rows, id, customerId, amount, status) ==
    {IF r.id = id
     THEN [r EXCEPT !.customer_id = customerId, !.amount = amount, !.status = status]
     ELSE r : r \in rows}

\* DELETE without its WHERE clause
Delete_AllRows(rows, id) == {}

\* DELETE FROM invoices WHERE id = ..
Delete(rows, id) == {r \in rows : r.id # id}

\* the texts of the errors the sql client may throw
StoreErrorTexts == {"connect ECONNREFUSED 10.0.0.5:5432", "violates foreign key constraint"}

\* new Date().toISOString() and its split('T')[0]
Instants == {[date |-> "2025-12-05", time |-> "14:30:00.000Z"]}
DateOf(instant) == instant.date
NoDate == ""

(***************************************************************************)
(* The inputs of an invocation.                                            *)
(***************************************************************************)
Procs == {1, 2}
\* the sequential specification runs its invocations one after another
SeqProcs == {1}

EmptyForm == [name \in {} |-> << >>]
Entry(name, value) == [n \in {name} |-> value]
OptionalEntries(name, values) == {EmptyForm} \cup {Entry(name, v) : v \in values}

CustomerIdValues == {Str_empty, Str_c1}
AmountValues == {Str_0, Str_abc, Str_50, Str_4_35}
StatusValues == {Str_draft, Str_pending, Str_paid}

Forms ==
    {a @@ b @@ c : a \in OptionalEntries("customerId", CustomerIdValues),
                   b \in OptionalEntries("amount", AmountValues),
                   c \in OptionalEntries("status", StatusValues)}

\* the State that useActionState hands to createInvoice of part_004
InitialState == [errors |-> flattenFieldErrors(<< >>), message |-> "null"]
FailedState ==
    [errors |-> flattenFieldErrors(<<Issue("customerId", "invalid_type", MsgCustomer)>>),
     message |-> MsgMissingFields]
NoPrevState == [errors |-> flattenFieldErrors(<< >>), message |-> "none"]
PrevStates(file, op) ==
    IF file = "part_004" /\ op = "createInvoice"
    THEN {InitialState, FailedState} ELSE {NoPrevState}

NoId == 0

(***************************************************************************)
(* State.                                                                  *)
(***************************************************************************)
VARIABLES
    revision,   \* the revision of the actions file that is deployed
    inv,        \* inv[p]: the invocation process p runs, or ran last
    store,      \* the rows of the invoices table
    nextId,     \* the identifier the table gives to the next inserted row
    started     \* the number of invocations started so far

vars == <<revision, inv, store, nextId, started>>

IdleInvocation ==
    [pc |-> "idle", file |-> "part_004", op |-> "deleteInvoice", id |-> NoId,
     prevState |-> NoPrevState, formData |-> EmptyForm, data |-> NoData,
     amountInCents |-> NoAmount, date |-> NoDate, caught |-> NoError,
     trace |-> << >>, console |-> << >>, outcome |-> NoOutcome]

InitialRows ==
    {Row(1, Str_c0, [k |-> "num", neg |-> FALSE, c |-> 1000, ulps |-> 0],
         Str_pending, "2025-01-01")}

Init ==
    /\ revision \in Files
    /\ inv = [p \in Procs |-> IdleInvocation]
    /\ store = InitialRows
    /\ nextId = 2
    /\ started = 0

\* a handler that only logs: the error is dropped and the function goes on
Raise_Swallowed(i, error) ==
    IF InTry(i.file, i.op, i.pc)
    THEN [i EXCEPT !.pc = NextStmt(i.file, i.op, i.pc)]
    ELSE [i EXCEPT !.pc = "done", !.outcome = Thrown(error)]

\* a failed sql statement is issued once more before the error is handled
Raise_Retry(i, error) ==
    IF i.pc = "write" /\ Cardinality({k \in 1..Len(i.trace) : i.trace[k] = "write_failed"}) = 1
    THEN i
    ELSE IF InTry(i.file, i.op, i.pc)
    THEN [i EXCEPT !.pc = "catch", !.caught = error]
    ELSE [i EXCEPT !.pc = "done", !.outcome = Thrown(error)]

\* an error raised by the statement at i.pc: caught when the statement lies
\* in the try block, and propagated to the caller otherwise
Raise(i, error) ==
    IF InTry(i.file, i.op, i.pc)
    THEN [i EXCEPT !.pc = "catch", !.caught = error]
    ELSE [i EXCEPT !.pc = "done", !.outcome = Thrown(error)]

\* a returned state that is the previous state handed back
Finish_ReturnsPrevState(i, outcome) ==
    [i EXCEPT !.pc = "done",
              !.outcome = IF outcome.kind = "returned" /\ i.prevState = FailedState
                          THEN Returned(i.prevState) ELSE outcome]

Finish(i, outcome) == [i EXCEPT !.pc = "done", !.outcome = outcome]

Advance(i) == [i EXCEPT !.pc = NextStmt(i.file, i.op, i.pc)]

Event(i, e) == [i EXCEPT !.trace = Append(@, e)]

(***************************************************************************)
(* Actions.                                                                *)
(***************************************************************************)
\* the invocation record of a call of an exported function
Call(file, op, id, prevState, formData) ==
    [IdleInvocation EXCEPT !.pc = FirstStmt(op), !.file = file, !.op = op, !.id = id,
                           !.prevState = prevState, !.formData = formData]

\* the framework calls an exported function
Start(p) ==
    /\ inv[p].pc = "idle"
    /\ started < MaxInvocations
    /\ \E file \in {revision}, op \in Ops :
       \E id \in (IF op = "createInvoice" THEN {NoId} ELSE 1..(nextId - 1 + ExtraIds)),
          formData \in (IF op = "deleteInvoice" THEN {EmptyForm} ELSE Forms),
          prevState \in PrevStates(file, op) :
            inv' = [inv EXCEPT ![p] = Call(file, op, id, prevState, formData)]
    /\ started' = started + 1
    /\ UNCHANGED <<revision, store, nextId>>

\* CreateInvoice.safeParse({...}) / CreateInvoice.parse({...}) / UpdateInvoice.parse({...})
Parse(p) ==
    LET i == inv[p]
        input == [customerId |-> FormDataGet(i.formData, "customerId"),
                  amount |-> FormDataGet(i.formData, "amount"),
                  status |-> FormDataGet(i.formData, "status")]
        validatedFields == safeParse(i.file, SchemaOf(i.file, i.op), input)
    IN  /\ i.pc = "parse"
        /\ inv' = [inv EXCEPT ![p] =
               IF validatedFields.success
               THEN Advance(Event([i EXCEPT !.data = validatedFields.data], "validated"))
               ELSE IF UsesSafeParse(i.file, i.op)
                    THEN Finish(Event(i, "invalid"), ValidationFailure(validatedFields.issues))
                    ELSE Raise(Event(i, "invalid"), ZodError(validatedFields.issues))]
        /\ UNCHANGED <<revision, store, nextId, started>>

\* const amountInCents = amount * 100; const date = new Date()...
Transform(p) ==
    LET i == inv[p]
    IN  /\ i.pc = "transform"
        /\ \E now \in Instants :
             inv' = [inv EXCEPT ![p] =
                 Advance(Event([i EXCEPT !.amountInCents = Times100(i.data.amount),
                                         !.date = IF i.op = "createInvoice"
                                                  THEN DateOf(now) ELSE NoDate],
                               "transformed"))]
        /\ UNCHANGED <<revision, store, nextId, started>>

\* await sql`...` resolves
WriteOk(p) ==
    LET i == inv[p]
    IN  /\ i.pc = "write"
        /\ store' = CASE i.op = "createInvoice" ->
                           Insert(store, nextId, i.data.customerId, i.amountInCents,
                                  i.data.status, i.date)
                      [] i.op = "updateInvoice" ->
                           Update(store, i.id, i.data.customerId, i.amountInCents,
                                  i.data.status)
                      [] i.op = "deleteInvoice" -> Delete(store, i.id)
        /\ nextId' = IF i.op = "createInvoice" THEN nextId + 1 ELSE nextId
        /\ inv' = [inv EXCEPT ![p] = Advance(Event(i, "write_ok"))]
        /\ UNCHANGED <<revision, started>>

\* await sql`...` rejects: the table is left as it was
WriteFail(p) ==
    LET i == inv[p]
    IN  /\ i.pc = "write"
        /\ \E text \in StoreErrorTexts :
             inv' = [inv EXCEPT ![p] = Raise(Event(i, "write_failed"), StoreError(text))]
        /\ UNCHANGED <<revision, store, nextId, started>>

\* revalidatePath('/dashboard/invoices') returns
RevalidateOk(p) ==
    LET i == inv[p]
    IN  /\ i.pc = "revalidatePath"
        /\ inv' = [inv EXCEPT ![p] = Advance(Event(i, "revalidated"))]
        /\ UNCHANGED <<revision, store, nextId, started>>

\* revalidatePath('/dashboard/invoices') throws
RevalidateFail(p) ==
    LET i == inv[p]
    IN  /\ i.pc = "revalidatePath"
        /\ inv' = [inv EXCEPT ![p] = Raise(Event(i, "revalidate_failed"), RevalidateError)]
        /\ UNCHANGED <<revision, store, nextId, started>>

\* redirect('/dashboard/invoices'): raises the NEXT_REDIRECT signal
Redirect(p) ==
    LET i == inv[p]
    IN  /\ i.pc = "redirect"
        /\ inv' = [inv EXCEPT ![p] = Raise(Event(i, "redirect"), RedirectSignal)]
        /\ UNCHANGED <<revision, store, nextId, started>>

\* return { message: 'Invoice deleted successfully.' }
ReturnDeleted(p) ==
    LET i == inv[p]
    IN  /\ i.pc = "returnDeleted"
        /\ inv' = [inv EXCEPT ![p] = Finish(i, Returned([message |-> MsgDeleted]))]
        /\ UNCHANGED <<revision, store, nextId, started>>

\* the end of the function body
End(p) ==
    LET i == inv[p]
    IN  /\ i.pc = "end"
        /\ inv' = [inv EXCEPT ![p] = Finish(i, Returned(Undefined))]
        /\ UNCHANGED <<revision, store, nextId, started>>

\* catch (error) { console.error(error); ... }
Catch(p) ==
    LET i == inv[p]
    IN  /\ i.pc = "catch"
        /\ inv' = [inv EXCEPT ![p] =
               Finish(Event([i EXCEPT !.console = Append(@, i.caught)], "caught"),
                      CatchOutcome(i.file, i.op, i.caught))]
        /\ UNCHANGED <<revision, store, nextId, started>>

\* the outcome has reached the caller: the request and all that belongs to the
\* invocation are discarded
Discard(p) ==
    /\ inv[p].pc = "done"
    /\ inv' = [inv EXCEPT ![p] = IdleInvocation]
    /\ UNCHANGED <<revision, store, nextId, started>>

Next ==
    \E p \in SeqProcs :
        \/ Start(p)
        \/ Parse(p)
        \/ Transform(p)
        \/ WriteOk(p)
        \/ WriteFail(p)
        \/ RevalidateOk(p)
        \/ RevalidateFail(p)
        \/ Redirect(p)
        \/ ReturnDeleted(p)
        \/ End(p)
        \/ Catch(p)
        \/ Discard(p)

Spec == Init /\ [][Next]_vars

(***************************************************************************)
(* One invocation on a table of two rows, over a wider range of forms:     *)
(* blank, negative and fractional amounts, and a form that carries an      *)
(* entry named id besides the three fields the functions read.             *)
(***************************************************************************)
Str_2 == <<"2">>
Str_blank == <<" ">>

WideAmountValues == AmountValues \cup {Str_empty, Str_blank, Str_neg5, Str_49_99}

WideForms ==
    {a @@ b @@ c @@ d : a \in OptionalEntries("customerId", CustomerIdValues),
                        b \in OptionalEntries("amount", WideAmountValues),
                        c \in OptionalEntries("status", StatusValues),
                        d \in OptionalEntries("id", {Str_2})}

TwoRows ==
    InitialRows \cup
        {Row(2, Str_c1, [k |-> "num", neg |-> FALSE, c |-> 2500, ulps |-> 0],
             Str_paid, "2025-02-02")}

InitForm ==
    /\ revision \in Files
    /\ inv = [p \in Procs |-> IdleInvocation]
    /\ store = TwoRows
    /\ nextId = 3
    /\ started = 0

StartForm(p) ==
    /\ inv[p].pc = "idle"
    /\ started = 0
    /\ \E file \in {revision}, op \in Ops :
       \E id \in (IF op = "createInvoice" THEN {NoId} ELSE 1..(nextId - 1 + ExtraIds)),
          formData \in (IF op = "deleteInvoice" THEN {EmptyForm} ELSE WideForms),
          prevState \in PrevStates(file, op) :
            inv' = [inv EXCEPT ![p] = Call(file, op, id, prevState, formData)]
    /\ started' = started + 1
    /\ UNCHANGED <<revision, store, nextId>>

NextForm ==
    \E p \in SeqProcs :
        \/ StartForm(p)
        \/ Parse(p)
        \/ Transform(p)
        \/ WriteOk(p)
        \/ WriteFail(p)
        \/ RevalidateOk(p)
        \/ RevalidateFail(p)
        \/ Redirect(p)
        \/ ReturnDeleted(p)
        \/ End(p)
        \/ Catch(p)

SpecForm == InitForm /\ [][NextForm]_vars

(***************************************************************************)
(* Two requests served at once.  Each process runs one invocation on the   *)
(* row the table starts with; the steps of the two interleave freely, the  *)
(* await of the sql statement being where an invocation is suspended.      *)
(***************************************************************************)
TargetId == 1

\* the forms with all three fields, customer c1, that the schema accepts
ConcForms(file) ==
    {f \in Forms :
        /\ DOMAIN f = FieldNames
        /\ f["customerId"] = Str_c1
        /\ ObjectIssues(file, CreateInvoice(file),
                        [name \in FieldNames |-> StringValue(f[name])]) = << >>}

StartConc(p) ==
    /\ inv[p].pc = "idle"
    /\ inv[p].trace = << >>
    /\ started < Cardinality(Procs)
    /\ \E file \in {revision}, op \in Ops :
       \E formData \in (IF op = "deleteInvoice" THEN {EmptyForm} ELSE ConcForms(file)),
          prevState \in PrevStates(file, op) :
            inv' = [inv EXCEPT ![p] =
                       Call(file, op, IF op = "createInvoice" THEN NoId ELSE TargetId,
                            prevState, formData)]
    /\ started' = started + 1
    /\ UNCHANGED <<revision, store, nextId>>

NextConc ==
    \E p \in Procs :
        \/ StartConc(p)
        \/ Parse(p)
        \/ Transform(p)
        \/ WriteOk(p)
        \/ WriteFail(p)
        \/ RevalidateOk(p)
        \/ RevalidateFail(p)
        \/ Redirect(p)
        \/ ReturnDeleted(p)
        \/ End(p)
        \/ Catch(p)

SpecConc == Init /\ [][NextConc]_vars

(***************************************************************************)
(* The same form submitted twice to createInvoice of part_004, once by     *)
(* each process, each with a previous state of its own: the initial state  *)
(* of useActionState, or the state an earlier failed submission returned.  *)
(***************************************************************************)
InitPair ==
    /\ revision = "part_004"
    /\ inv = [p \in Procs |-> IdleInvocation]
    /\ store = InitialRows
    /\ nextId = 2
    /\ started = 0

StartPair(p) ==
    /\ inv[p].pc = "idle"
    /\ inv[p].trace = << >>
    /\ \E q \in Procs \ {p} :
       \E formData \in (IF inv[q].pc = "idle" THEN Forms ELSE {inv[q].formData}),
          prevState \in PrevStates(revision, "createInvoice") :
            inv' = [inv EXCEPT ![p] =
                       Call(revision, "createInvoice", NoId, prevState, formData)]
    /\ started' = started + 1
    /\ UNCHANGED <<revision, store, nextId>>

NextPair ==
    \E p \in Procs :
        \/ StartPair(p)
        \/ Parse(p)
        \/ Transform(p)
        \/ WriteOk(p)
        \/ WriteFail(p)
        \/ RevalidateOk(p)
        \/ RevalidateFail(p)
        \/ Redirect(p)
        \/ Catch(p)

SpecPair == InitPair /\ [][NextPair]_vars

(***************************************************************************)
(* The edit form.  An invoice is created with an amount of at most two     *)
(* fractional digits; the edit page then shows the row with                *)
(* defaultValue={invoice.amount / 100} and the user submits the form as it *)
(* was filled in, so updateInvoice receives String(invoice.amount / 100).  *)
(***************************************************************************)
\* the decimal strings of 0.01 .. MaxCents / 100
DecimalAmounts ==
    {NumberToString([k |-> "num", neg |-> FALSE, c |-> c, off |-> 0]) : c \in 1..MaxCents}

\* the fields of the edit form as it is pre-populated from the row
EditForm(r) ==
    Entry("customerId", r.customer_id) @@
    Entry("amount", NumberToString(Div100(r.amount))) @@
    Entry("status", r.status)

StartCreateAmount(p) ==
    /\ inv[p].pc = "idle"
    /\ started = 0
    /\ \E amount \in DecimalAmounts, prevState \in PrevStates(revision, "createInvoice") :
         inv' = [inv EXCEPT ![p] =
                    Call(revision, "createInvoice", NoId, prevState,
                         Entry("customerId", Str_c1) @@ Entry("amount", amount) @@
                         Entry("status", Str_paid))]
    /\ started' = started + 1
    /\ UNCHANGED <<revision, store, nextId>>

StartEdit(p) ==
    /\ inv[p].pc = "idle"
    /\ started = 1
    /\ \E r \in store :
         inv' = [inv EXCEPT ![p] =
                    Call(revision, "updateInvoice", r.id, NoPrevState, EditForm(r))]
    /\ started' = started + 1
    /\ UNCHANGED <<revision, store, nextId>>

NextRoundTrip ==
    \E p \in SeqProcs :
        \/ StartCreateAmount(p)
        \/ StartEdit(p)
        \/ Parse(p)
        \/ Transform(p)
        \/ WriteOk(p)
        \/ RevalidateOk(p)
        \/ Redirect(p)
        \/ Discard(p)

SpecRoundTrip == Init /\ [][NextRoundTrip]_vars

(***************************************************************************)
(* Authentication (auth.ts, auth.config.ts): the authorize function of the *)
(* Credentials provider, getUser, and the authorized callback that the     *)
(* middleware runs for every request.                                      *)
(***************************************************************************)
Str_u_x_io == <<"u", "@", "x", ".", "i", "o">>
Str_s_x_io == <<"s", "@", "x", ".", "i", "o">>
Str_o_x_io == <<"o", "@", "x", ".", "i", "o">>
Str_u_x == <<"u", "@", "x">>
Str_u_x_i == <<"u", "@", "x", ".", "i">>
Str_dot_u_x_io == <<".", "u", "@", "x", ".", "i", "o">>
Str_secret == <<"s", "e", "c", "r", "e", "t">>
Str_wrong1 == <<"w", "r", "o", "n", "g", "1">>
Str_12345 == <<"1", "2", "3", "4", "5">>

Letters ==
    {"a", "b", "c", "d", "e", "f", "g", "h", "i", "j", "k", "l", "m",
     "n", "o", "p", "q", "r", "s", "t", "u", "v", "w", "x", "y", "z"}
AlphaNum == Letters \cup DigitChars

\* z.string().email(): the pattern
\* ^(?!\.)(?!.*\.\.)([A-Z0-9_'+\-\.]*)[A-Z0-9_+-]@([A-Z0-9][A-Z0-9\-]*\.)+[A-Z]{2,}$
IsEmail(s) ==
    LET ats == {i \in 1..Len(s) : s[i] = "@"}
    IN  /\ Cardinality(ats) = 1
        /\ LET a == CHOOSE i \in ats : TRUE
               local == SubSeq(s, 1, a - 1)
               domain == SubSeq(s, a + 1, Len(s))
               dots == {i \in 1..Len(domain) : domain[i] = "."}
           IN  /\ local # << >>
               /\ Head(s) # "."
               /\ \A i \in 1..(Len(s) - 1) : ~(s[i] = "." /\ s[i + 1] = ".")
               /\ \A i \in 1..Len(local) : local[i] \in AlphaNum \cup {"_", "'", "+", "-", "."}
               /\ local[Len(local)] \in AlphaNum \cup {"_", "+", "-"}
               /\ dots # {}
               /\ LET last == CHOOSE i \in dots : \A j \in dots : j <= i
                      labels == SubSeq(domain, 1, last - 1)
                      tld == SubSeq(domain, last + 1, Len(domain))
                  IN  /\ Len(tld) >= 2
                      /\ \A i \in 1..Len(tld) : tld[i] \in Letters
                      /\ labels # << >>
                      /\ \A i \in 1..Len(labels) :
                             IF i = 1 \/ labels[i - 1] = "."
                             THEN labels[i] \in AlphaNum
                             ELSE labels[i] \in AlphaNum \cup {"-", "."}

\* z.string().min(6)
MinPasswordLength == 6
IsPassword(s) == Len(s) >= MinPasswordLength

\* safeParse of the credentials taken without looking at the fields
ParseCredentials_Unchecked(credentials) ==
    [success |-> TRUE,
     data |-> [email |-> IF "email" \in DOMAIN credentials
                         THEN credentials["email"] ELSE << >>,
               password |-> IF "password" \in DOMAIN credentials
                            THEN credentials["password"] ELSE << >>]]

\* z.object({ email, password }).safeParse(credentials)
ParseCredentials(credentials) ==
    IF /\ {"email", "password"} \subseteq DOMAIN credentials
       /\ IsEmail(credentials["email"])
       /\ IsPassword(credentials["password"])
    THEN [success |-> TRUE,
          data |-> [email |-> credentials["email"], password |-> credentials["password"]]]
    ELSE [success |-> FALSE, data |-> [email |-> << >>, password |-> << >>]]

\* a bcrypt hash: it is made of a salt and of the password it was made from
BcryptHash(salt, password) == [alg |-> "2b", salt |-> salt, of |-> password]

\* a comparison that accepts every password
BcryptCompare_Always(password, hash) == hash.alg = "2b"

\* bcrypt.compare(password, hash)
BcryptCompare(password, hash) == BcryptHash(hash.salt, password) = hash

\* the users table
UserRow(id, email, hash) == [id |-> id, email |-> email, password |-> hash]
Users ==
    {UserRow(1, Str_u_x_io, BcryptHash("s1", Str_secret)),
     UserRow(2, Str_s_x_io, BcryptHash("s2", Str_12345))}

\* SELECT * FROM users WHERE email = ..; user[0], undefined when no row matches
NoUser == [id |-> 0, email |-> << >>, password |-> BcryptHash("", << >>)]
SelectUser(rows, email) ==
    IF \E r \in rows : r.email = email
    THEN CHOOSE r \in rows : r.email = email
    ELSE NoUser

FetchUserError == Error("Error", "Failed to fetch user.", << >>)

\* the session the callback receives: null, or an object with the user
NullAuth == [present |-> FALSE, user |-> NoUser]
SessionOf(user) == [present |-> TRUE, user |-> user]

Str_root == <<"/">>
Str_login == <<"/", "l", "o", "g", "i", "n">>
Str_dash == <<"/", "d", "a", "s", "h">>
Str_dashboard == <<"/", "d", "a", "s", "h", "b", "o", "a", "r", "d">>
Str_dashboard_invoices == Str_dashboard \o <<"/", "i", "n", "v", "o", "i", "c", "e", "s">>
Str_dashboards == Str_dashboard \o <<"s">>

\* pathname === '/dashboard' in place of startsWith
StartsWith_Equals(s, prefix) == s = prefix

\* s.startsWith(prefix)
StartsWith(s, prefix) == Len(s) >= Len(prefix) /\ SubSeq(s, 1, Len(prefix)) = prefix

\* what the callback returns: true, false, or a redirect response
Allow == [kind |-> "true", location |-> << >>]
Deny == [kind |-> "false", location |-> << >>]
ResponseRedirect(location) == [kind |-> "redirect", location |-> location]

\* authorized({ auth, request: { nextUrl } })
Authorized(auth, pathname) ==
    LET isLoggedIn == auth.present /\ auth.user # NoUser
        isOnDashboard == StartsWith(pathname, Str_dashboard)
    IN  IF isOnDashboard
        THEN IF isLoggedIn THEN Allow ELSE Deny
        ELSE IF isLoggedIn THEN ResponseRedirect(Str_dashboard)
        ELSE Allow

\* the credentials a sign-in form may submit, and the paths a request may name
NoCredentials == [n \in {} |-> << >>]
CredentialForms ==
    {a @@ b :
        a \in OptionalEntries("email", {Str_u_x_io, Str_s_x_io, Str_o_x_io, Str_u_x,
                                        Str_u_x_i, Str_dot_u_x_io}),
        b \in OptionalEntries("password", {Str_secret, Str_wrong1, Str_12345})}
Paths == {Str_root, Str_login, Str_dash, Str_dashboard, Str_dashboard_invoices,
          Str_dashboards}

MsgInvalidCredentials == "Invalid credentials"

\* a browser session with no call in progress
IdleCall ==
    [pc |-> "idle", fn |-> "none", credentials |-> NoCredentials,
     email |-> << >>, password |-> << >>, user |-> NoUser,
     pathname |-> << >>, trace |-> << >>, console |-> << >>,
     outcome |-> NoOutcome, session |-> NullAuth]

InitAuth ==
    /\ revision = "part_000"
    /\ inv = [p \in Procs |-> IdleCall]
    /\ store = Users
    /\ nextId = 3
    /\ started = 0

\* signIn('credentials', formData) reaches authorize(credentials)
StartAuthorize(p) ==
    /\ inv[p].pc = "idle"
    /\ started < MaxInvocations
    /\ \E credentials \in CredentialForms :
         inv' = [inv EXCEPT ![p] =
                    [IdleCall EXCEPT !.pc = "parse", !.fn = "authorize",
                                     !.credentials = credentials,
                                     !.session = inv[p].session]]
    /\ started' = started + 1
    /\ UNCHANGED <<revision, store, nextId>>

\* const parsedCredentials = ...safeParse(credentials); if (parsedCredentials.success)
ParseCredentialsStep(p) ==
    LET i == inv[p]
        parsedCredentials == ParseCredentials(i.credentials)
    IN  /\ i.fn = "authorize" /\ i.pc = "parse"
        /\ inv' = [inv EXCEPT ![p] =
               IF parsedCredentials.success
               THEN [Event(i, "well_formed") EXCEPT
                        !.pc = "getUser",
                        !.email = parsedCredentials.data.email,
                        !.password = parsedCredentials.data.password]
               ELSE [Event(i, "malformed") EXCEPT !.pc = "logInvalid"]]
        /\ UNCHANGED <<revision, store, nextId, started>>

\* getUser: the SELECT resolves; if (!user) return null
GetUserOk(p) ==
    LET i == inv[p]
        user == SelectUser(store, i.email)
    IN  /\ i.fn = "authorize" /\ i.pc = "getUser"
        /\ inv' = [inv EXCEPT ![p] =
               IF user = NoUser
               THEN Finish(Event(i, "query"), Returned(Null))
               ELSE [Event(i, "query") EXCEPT !.pc = "compare", !.user = user]]
        /\ UNCHANGED <<revision, store, nextId, started>>

\* getUser: the SELECT rejects; the handler logs it and throws a new Error
GetUserFail(p) ==
    LET i == inv[p]
    IN  /\ i.fn = "authorize" /\ i.pc = "getUser"
        /\ \E text \in StoreErrorTexts :
             inv' = [inv EXCEPT ![p] =
                        Finish([Event(i, "query_failed") EXCEPT
                                   !.console = Append(@, StoreError(text))],
                               Thrown(FetchUserError))]
        /\ UNCHANGED <<revision, store, nextId, started>>

\* const passwordsMatch = await bcrypt.compare(..); if (passwordsMatch) return user
ComparePassword(p) ==
    LET i == inv[p]
        passwordsMatch == BcryptCompare(i.password, i.user.password)
    IN  /\ i.fn = "authorize" /\ i.pc = "compare"
        /\ inv' = [inv EXCEPT ![p] =
               IF passwordsMatch
               THEN [Finish(Event(i, "match"), Returned(i.user)) EXCEPT
                        !.session = SessionOf(i.user)]
               ELSE [Event(i, "mismatch") EXCEPT !.pc = "logInvalid"]]
        /\ UNCHANGED <<revision, store, nextId, started>>

\* console.log('Invalid credentials'); return null
LogInvalid(p) ==
    LET i == inv[p]
    IN  /\ i.fn = "authorize" /\ i.pc = "logInvalid"
        /\ inv' = [inv EXCEPT ![p] =
               Finish([i EXCEPT !.console = Append(@, MsgInvalidCredentials)],
                      Returned(Null))]
        /\ UNCHANGED <<revision, store, nextId, started>>

\* the middleware runs the authorized callback for a request
Request(p) ==
    /\ inv[p].pc = "idle"
    /\ started < MaxInvocations
    /\ \E pathname \in Paths :
         inv' = [inv EXCEPT ![p] =
                    [IdleCall EXCEPT !.pc = "done", !.fn = "authorized",
                                     !.pathname = pathname,
                                     !.session = inv[p].session,
                                     !.outcome = Returned(Authorized(inv[p].session,
                                                                     pathname))]]
    /\ started' = started + 1
    /\ UNCHANGED <<revision, store, nextId>>

\* signOut(): the session ends
SignOut(p) ==
    /\ inv[p].pc = "idle"
    /\ inv[p].session # NullAuth
    /\ inv' = [inv EXCEPT ![p] = IdleCall]
    /\ UNCHANGED <<revision, store, nextId, started>>

\* the result has reached the caller
Forget(p) ==
    /\ inv[p].pc = "done"
    /\ inv' = [inv EXCEPT ![p] = [IdleCall EXCEPT !.session = inv[p].session]]
    /\ UNCHANGED <<revision, store, nextId, started>>

NextAuth ==
    \E p \in SeqProcs :
        \/ StartAuthorize(p)
        \/ ParseCredentialsStep(p)
        \/ GetUserOk(p)
        \/ GetUserFail(p)
        \/ ComparePassword(p)
        \/ LogInvalid(p)
        \/ Request(p)
        \/ SignOut(p)
        \/ Forget(p)

SpecAuth == InitAuth /\ [][NextAuth]_vars

(***************************************************************************)
(* Vocabulary of the properties.                                           *)
(***************************************************************************)
InTrace(i, e) == \E k \in 1..Len(i.trace) : i.trace[k] = e

WriteEvents == {"write_ok", "write_failed"}
InvalidationEvents == {"revalidated", "revalidate_failed"}
SignalEvents == InvalidationEvents \cup {"redirect"}

Submitted(i) ==
    [customerId |-> FormDataGet(i.formData, "customerId"),
     amount |-> FormDataGet(i.formData, "amount"),
     status |-> FormDataGet(i.formData, "status")]

\* the fields of the submission that their own field parser rejects
InvalidFields(i) ==
    {f \in FieldNames :
        CASE f = "customerId" -> ParseCustomerId(i.file, Submitted(i).customerId) # << >>
          [] f = "amount" -> ParseAmount(i.file, Submitted(i).amount) # << >>
          [] f = "status" -> ParseStatus(i.file, Submitted(i).status) # << >>}

Validates(i) == i.op \in {"createInvoice", "updateInvoice"} /\ i.pc # "idle"

IsValidationFailure(outcome) ==
    /\ outcome.kind = "returned"
    /\ DOMAIN outcome.value = {"errors", "message"}

IsDatabaseErrorMessage(outcome) ==
    /\ outcome.kind = "returned"
    /\ "message" \in DOMAIN outcome.value
    /\ \E op \in Ops : outcome.value.message = DatabaseErrorMessage(op)

\* C1: in every invocation of createInvoice, updateInvoice and deleteInvoice a
\* revalidatePath or redirect event occurs only after the write of that same
\* invocation has resolved successfully, and in an invocation whose write
\* failed neither event occurs.
C1_SignalsOnlyAfterSuccessfulWrite ==
    \A p \in Procs :
        LET t == inv[p].trace
        IN  /\ \A k \in 1..Len(t) :
                 t[k] \in SignalEvents => \E j \in 1..(k - 1) : t[j] = "write_ok"
            /\ InTrace(inv[p], "write_failed") =>
                 \A k \in 1..Len(t) : t[k] \notin SignalEvents

C1_Witness ==
    \E p \in Procs :
        /\ inv[p].pc = "done"
        /\ InTrace(inv[p], "write_ok")
        /\ InTrace(inv[p], "revalidated")
        /\ InTrace(inv[p], "redirect")

\* C2: an invocation of createInvoice or updateInvoice whose submitted fields
\* fail schema validation performs no store write, no cache invalidation and
\* no navigation signal, and leaves the table as it is.
C2_InvalidSubmissionTouchesNothing ==
    [][\A p \in Procs :
          (Validates(inv'[p]) /\ InvalidFields(inv'[p]) # {}) =>
              /\ \A k \in 1..Len(inv'[p].trace) :
                     inv'[p].trace[k] \notin (WriteEvents \cup SignalEvents)
              /\ (inv[p].pc \notin {"idle", "done"} /\ inv'[p] # inv[p]
                      => store' = store)]_vars

C2_Witness ==
    \E p \in Procs :
        /\ inv[p].pc = "done"
        /\ inv[p].op = "updateInvoice"
        /\ InvalidFields(inv[p]) # {}
        /\ InTrace(inv[p], "invalid")

\* C3: every createInvoice or updateInvoice submission with at least one
\* invalid field ends in a ValidationFailure result carrying the field error
\* map and a summary message; it is never a thrown error and never the
\* 'Database Error' message.
C3_InvalidSubmissionIsValidationFailure ==
    \A p \in Procs :
        (Validates(inv[p]) /\ inv[p].pc = "done" /\ InvalidFields(inv[p]) # {}) =>
            /\ inv[p].outcome.kind # "thrown"
            /\ ~IsDatabaseErrorMessage(inv[p].outcome)
            /\ IsValidationFailure(inv[p].outcome)

\* C4: whenever the store write of createInvoice, updateInvoice or
\* deleteInvoice fails, the invocation returns, as a value, the fixed
\* operation-named 'Database Error' message, and no cache invalidation is
\* emitted.
C4_WriteFailureIsReturnedMessage ==
    \A p \in Procs :
        (inv[p].pc = "done" /\ InTrace(inv[p], "write_failed")) =>
            /\ inv[p].outcome.kind = "returned"
            /\ inv[p].outcome.value = [message |-> DatabaseErrorMessage(inv[p].op)]
            /\ \A k \in 1..Len(inv[p].trace) : inv[p].trace[k] \notin InvalidationEvents

\* the outcome carries the text: as the text of a thrown error or as a message
Mentions(outcome, text) ==
    \/ outcome.kind = "thrown" /\ outcome.error.text = text
    \/ /\ outcome.kind = "returned"
       /\ "message" \in DOMAIN outcome.value
       /\ outcome.value.message = text

\* the outcome with the text of the store error replaced by another text
WithStoreText(outcome, text) ==
    IF outcome.kind = "thrown" /\ outcome.error.text \in StoreErrorTexts
    THEN [outcome EXCEPT !.error.text = text]
    ELSE outcome

\* C5: after a store failure the outcome the caller observes is the same
\* whatever the text of the store error, and never contains that text.
C5_OutcomeIndependentOfStoreErrorText ==
    \A p \in Procs :
        (inv[p].pc = "done" /\ InTrace(inv[p], "write_failed")) =>
            \A text \in StoreErrorTexts :
                /\ ~Mentions(inv[p].outcome, text)
                /\ WithStoreText(inv[p].outcome, text) = inv[p].outcome

\* C6 as stated: in createInvoice and updateInvoice, whenever the write
\* succeeds the navigation signal reaches the caller.
C6_Original_WriteOkMeansRedirectReachesCaller ==
    \A p \in Procs :
        (Validates(inv[p]) /\ inv[p].pc = "done" /\ InTrace(inv[p], "write_ok")) =>
            inv[p].outcome = Thrown(RedirectSignal)

\* C6 (amended): in createInvoice and updateInvoice the redirect signal is
\* never caught by the handler of the try block, and whenever the write
\* succeeds and revalidatePath returns, the signal reaches the caller as the
\* outcome of the invocation and is never turned into a returned result.
C6_RedirectNeverAbsorbed ==
    \A p \in Procs :
        Validates(inv[p]) =>
            /\ inv[p].caught # RedirectSignal
            /\ InTrace(inv[p], "redirect") => inv[p].outcome = Thrown(RedirectSignal)
            /\ (inv[p].pc = "done" /\ InTrace(inv[p], "write_ok")
                    /\ InTrace(inv[p], "revalidated"))
                 => inv[p].outcome = Thrown(RedirectSignal)

C6_Witness ==
    \E p \in Procs :
        /\ inv[p].op = "updateInvoice"
        /\ inv[p].pc = "done"
        /\ InTrace(inv[p], "write_ok")
        /\ inv[p].outcome = Thrown(RedirectSignal)

\* C7: in createInvoice, updateInvoice and deleteInvoice an error thrown by
\* revalidatePath is never caught by the handler of the try block around the
\* write, and an invocation whose write succeeded never ends with that
\* handler's outcome.
C7_RevalidateFailureNotHandledAsWriteFailure ==
    \A p \in Procs :
        /\ inv[p].caught # RevalidateError
        /\ (inv[p].pc = "done" /\ InTrace(inv[p], "write_ok")) =>
               /\ ~InTrace(inv[p], "caught")
               /\ ~IsDatabaseErrorMessage(inv[p].outcome)

\* C8: a createInvoice submission (part_004) in which two or more of
\* customerId, amount and status are invalid returns a field error map with
\* a non-empty entry for every invalid field.
C8_AllInvalidFieldsReported ==
    \A p \in Procs :
        (/\ inv[p].op = "createInvoice" /\ inv[p].file = "part_004"
         /\ inv[p].pc = "done"
         /\ Cardinality(InvalidFields(inv[p])) >= 2) =>
            /\ IsValidationFailure(inv[p].outcome)
            /\ \A f \in InvalidFields(inv[p]) :
                   /\ f \in DOMAIN inv[p].outcome.value.errors
                   /\ inv[p].outcome.value.errors[f] # << >>

C8_Witness ==
    \E p \in Procs :
        /\ inv[p].op = "createInvoice" /\ inv[p].file = "part_004"
        /\ inv[p].pc = "done"
        /\ InvalidFields(inv[p]) = FieldNames
        /\ DOMAIN inv[p].outcome.value.errors = FieldNames

\* C9: validation in createInvoice (part_004) yields exactly one of a field
\* error map and a validated record: once validation has run, the invocation
\* either has returned a ValidationFailure, whose map has at least one field
\* with at least one message, or goes on with the validated record, and it
\* goes on (transform, write) only when no field is invalid.
C9_ValidationOutcomeIsEitherOr ==
    \A p \in Procs :
        (/\ inv[p].op = "createInvoice" /\ inv[p].file = "part_004"
         /\ inv[p].pc \notin {"idle", "parse"}) =>
            LET failed == IsValidationFailure(inv[p].outcome)
                used == InTrace(inv[p], "validated")
            IN  /\ failed # used
                /\ failed =>
                     /\ \E f \in DOMAIN inv[p].outcome.value.errors :
                            Len(inv[p].outcome.value.errors[f]) >= 1
                     /\ inv[p].data = NoData
                     /\ \A e \in WriteEvents \cup {"transformed"} : ~InTrace(inv[p], e)
                /\ used => InvalidFields(inv[p]) = {}
                /\ (\E e \in WriteEvents \cup {"transformed"} : InTrace(inv[p], e))
                     => used /\ InvalidFields(inv[p]) = {}

C9_Witness ==
    \E p \in Procs :
        /\ inv[p].op = "createInvoice" /\ inv[p].file = "part_004"
        /\ inv[p].pc = "done"
        /\ IsValidationFailure(inv[p].outcome)
        /\ DOMAIN inv[p].outcome.value.errors = {"amount"}

\* C10: a createInvoice submission (part_004) whose customerId is the empty
\* string, with a valid amount and a valid status, ends in ValidationFailure
\* with an error on customerId only, and writes nothing to the store.
C10_EmptyCustomerIdRejected ==
    \A p \in Procs :
        (/\ inv[p].op = "createInvoice" /\ inv[p].file = "part_004"
         /\ inv[p].pc = "done"
         /\ Submitted(inv[p]).customerId = StringValue(Str_empty)
         /\ ParseAmount(inv[p].file, Submitted(inv[p]).amount) = << >>
         /\ ParseStatus(inv[p].file, Submitted(inv[p]).status) = << >>) =>
            /\ IsValidationFailure(inv[p].outcome)
            /\ DOMAIN inv[p].outcome.value.errors = {"customerId"}
            /\ \A e \in WriteEvents : ~InTrace(inv[p], e)

\* the submitted amount coerces to a number that is zero or negative
CoercesToNonPositive(value) ==
    LET n == Number(value)
    IN  n.k = "num" /\ (n.neg \/ n.m = 0)

\* C11: a createInvoice submission (part_004) whose amount coerces to a
\* number not greater than 0 ("0", a negative value, a blank or a missing
\* amount), with a valid customerId and status, ends in ValidationFailure whose
\* only error is the 'greater than $0' message on amount, and writes nothing.
C11_NonPositiveAmountRejected ==
    \A p \in Procs :
        (/\ inv[p].op = "createInvoice" /\ inv[p].file = "part_004"
         /\ inv[p].pc = "done"
         /\ CoercesToNonPositive(Submitted(inv[p]).amount)
         /\ ParseCustomerId(inv[p].file, Submitted(inv[p]).customerId) = << >>
         /\ ParseStatus(inv[p].file, Submitted(inv[p]).status) = << >>) =>
            /\ IsValidationFailure(inv[p].outcome)
            /\ inv[p].outcome.value.errors = [f \in {"amount"} |-> <<MsgAmount>>]
            /\ \A e \in WriteEvents : ~InTrace(inv[p], e)
            /\ store = TwoRows

C11_Witness ==
    \E p \in Procs :
        /\ inv[p].op = "createInvoice" /\ inv[p].file = "part_004"
        /\ inv[p].pc = "done"
        /\ "amount" \notin DOMAIN inv[p].formData
        /\ Submitted(inv[p]).customerId = StringValue(Str_c1)
        /\ Submitted(inv[p]).status = StringValue(Str_pending)
        /\ IsValidationFailure(inv[p].outcome)
        /\ DOMAIN inv[p].outcome.value.errors = {"amount"}

\* C12: every amount that createInvoice or updateInvoice has written to the
\* table is an integer number of cents, equal to exactly the submitted amount
\* times 100 (ulps = 0: the double product is the exact product).
C12_StoredAmountIsExactInteger ==
    /\ \A r \in store : IsInteger(r.amount)
    /\ \A p \in Procs :
           (Validates(inv[p]) /\ InTrace(inv[p], "write_ok")) =>
               LET n == Number(Submitted(inv[p]).amount)
               IN  /\ IsInteger(inv[p].amountInCents)
                   /\ n.k = "num" /\ n.s <= 2
                   /\ inv[p].amountInCents.c = n.m * Pow(10, 2 - n.s)

\* the number of events of the given kinds in the trace of the invocation
Count(i, events) == Cardinality({k \in 1..Len(i.trace) : i.trace[k] \in events})

\* C13: an invocation of createInvoice, updateInvoice or deleteInvoice issues
\* at most one sql write; a finished invocation that passed validation (every
\* deleteInvoice) has issued exactly one, an invocation whose validation
\* failed has issued none, and after a failed write no further write follows.
C13_AtMostOneWrite ==
    \A p \in Procs :
        LET i == inv[p]
        IN  /\ Count(i, WriteEvents) <= 1
            /\ (i.pc = "done" /\ (i.op = "deleteInvoice" \/ InTrace(i, "validated")))
                  => Count(i, WriteEvents) = 1
            /\ InTrace(i, "invalid") => Count(i, WriteEvents) = 0
            /\ InTrace(i, "write_failed") => i.pc \notin {"write", "transform", "parse"}

C13_Witness ==
    \E p \in Procs :
        /\ inv[p].pc = "done"
        /\ inv[p].op = "createInvoice"
        /\ InTrace(inv[p], "write_failed")
        /\ Count(inv[p], WriteEvents) = 1

\* the outcomes with which an invocation reports success to its caller
SuccessOutcomes ==
    {Thrown(RedirectSignal), Returned(Undefined), Returned([message |-> MsgDeleted])}

\* C14: an updateInvoice or deleteInvoice called with an id that was never
\* issued to any row (so it matches no stored record) does not finish as a
\* success: it emits no cache invalidation and no redirect, and its outcome is
\* none of the success outcomes.
C14_MissingIdIsNotSuccess ==
    \A p \in Procs :
        (/\ inv[p].op \in {"updateInvoice", "deleteInvoice"}
         /\ inv[p].pc = "done"
         /\ inv[p].id >= nextId) =>
            /\ \A e \in SignalEvents : ~InTrace(inv[p], e)
            /\ inv[p].outcome \notin SuccessOutcomes

\* the stages an invocation went through: its trace without the handler's
\* own "caught" event
StageTrace(i) == SelectSeq(i.trace, LAMBDA e : e # "caught")

IsPrefix(s, t) == Len(s) <= Len(t) /\ SubSeq(t, 1, Len(s)) = s

\* Validating -> ValidationFailed
PathValidationFailed == <<"invalid">>
\* Validating -> Transforming -> Persisting -> PersistFailed
PathPersistFailed == <<"validated", "transformed", "write_failed">>
\* ... -> Persisting -> Invalidated -> NavigationSignaled
PathNavigationSignaled ==
    <<"validated", "transformed", "write_ok", "revalidated", "redirect">>
\* ... -> Persisting -> (revalidatePath throws)
PathInvalidationFailed == <<"validated", "transformed", "write_ok", "revalidate_failed">>

\* C15 as stated: every finished createInvoice or updateInvoice invocation is
\* in one of the three terminal states ValidationFailed, PersistFailed and
\* NavigationSignaled, having passed the stages before it in order.
C15_Original_ThreeTerminalStates ==
    \A p \in Procs :
        (Validates(inv[p]) /\ inv[p].pc = "done") =>
            StageTrace(inv[p]) \in
                {PathValidationFailed, PathPersistFailed, PathNavigationSignaled}

\* C15 (amended): every createInvoice and updateInvoice invocation moves along
\* Pending -> Validating -> (ValidationFailed | Transforming -> Persisting ->
\* (PersistFailed | InvalidationFailed | Invalidated -> NavigationSignaled)):
\* its stages are always a prefix of one of the four paths, a finished
\* invocation has completed one of them, the redirect signal is the outcome
\* exactly of the last path, revalidatePath is called at most once and before
\* redirect, and a finished invocation never changes again.
C15_StagesInOrder ==
    /\ [](\A p \in Procs :
            Validates(inv[p]) =>
                LET t == StageTrace(inv[p])
                    paths == {PathValidationFailed, PathPersistFailed,
                              PathNavigationSignaled, PathInvalidationFailed}
                IN  /\ \E path \in paths : IsPrefix(t, path)
                    /\ inv[p].pc = "done" =>
                         /\ t \in paths
                         /\ (t = PathNavigationSignaled)
                              <=> (inv[p].outcome = Thrown(RedirectSignal)))
    /\ [][\A p \in Procs :
            (Validates(inv[p]) /\ inv[p].pc = "done") =>
                inv'[p] \in {inv[p], IdleInvocation}]_vars

C15_Witness ==
    \E p \in Procs :
        /\ inv[p].op = "createInvoice"
        /\ inv[p].pc = "done"
        /\ StageTrace(inv[p]) = PathNavigationSignaled

\* C16: a deleteInvoice invocation never reaches redirect and never has the
\* redirect signal as its outcome; it calls revalidatePath at most once, only
\* after its DELETE has succeeded, and a finished deleteInvoice whose DELETE
\* succeeded has called revalidatePath exactly once.
C16_DeleteInvalidatesOnceNeverRedirects ==
    \A p \in Procs :
        LET i == inv[p]
        IN  i.op = "deleteInvoice" =>
                /\ i.pc # "redirect"
                /\ ~InTrace(i, "redirect")
                /\ i.outcome # Thrown(RedirectSignal)
                /\ Count(i, InvalidationEvents) <= 1
                /\ Count(i, InvalidationEvents) = 1 =>
                       IsPrefix(<<"write_ok">>, i.trace)
                /\ (i.pc = "done" /\ InTrace(i, "write_ok")) =>
                       Count(i, InvalidationEvents) = 1

C16_Witness ==
    \E p \in Procs :
        /\ inv[p].op = "deleteInvoice"
        /\ inv[p].pc = "done"
        /\ inv[p].trace = <<"write_ok", "revalidated">>
        /\ inv[p].outcome.kind = "returned"

\* the step is the successful sql statement of invocation p
IsWriteStep(p) ==
    /\ inv[p].pc = "write"
    /\ Len(inv'[p].trace) = Len(inv[p].trace) + 1
    /\ inv'[p].trace[Len(inv'[p].trace)] = "write_ok"

\* C17: the successful UPDATE of updateInvoice(id, formData) leaves every row
\* whose id is not the id argument as it is, adds and removes no row, keeps id
\* and date of the row with that id and sets its customer_id, amount and
\* status to the validated values, whether or not the form has an entry named
\* id; no other step of the invocation changes the table.
C17_UpdateTouchesOnlyItsRow ==
    [][\A p \in Procs :
          (inv[p].op = "updateInvoice" /\ inv'[p] # inv[p]) =>
              IF IsWriteStep(p)
              THEN /\ {r.id : r \in store'} = {r.id : r \in store}
                   /\ Cardinality(store') = Cardinality(store)
                   /\ nextId' = nextId
                   /\ \A r \in store :
                        IF r.id # inv[p].id
                        THEN r \in store'
                        ELSE [r EXCEPT !.customer_id = inv[p].data.customerId,
                                       !.amount = inv[p].amountInCents,
                                       !.status = inv[p].data.status] \in store'
              ELSE store' = store /\ nextId' = nextId]_vars

C17_Witness ==
    \E p \in Procs :
        /\ inv[p].op = "updateInvoice"
        /\ inv[p].pc = "done"
        /\ inv[p].outcome = Thrown(RedirectSignal)
        /\ inv[p].id = 1
        /\ "id" \in DOMAIN inv[p].formData
        /\ inv[p].formData["id"] = Str_2
        /\ \E r \in store : r.id = 1 /\ r \notin TwoRows /\ r.date = "2025-01-01"
        /\ \E r \in store : r.id = 2 /\ r \in TwoRows

\* the fields on which a finished invocation reported (returned, threw or
\* logged) a validation issue
RejectedFields(i) ==
    IF IsValidationFailure(i.outcome)
    THEN DOMAIN i.outcome.value.errors
    ELSE UNION {{i.console[k].issues[j].path : j \in 1..Len(i.console[k].issues)} :
                   k \in 1..Len(i.console)}

OtherOp(op) == IF op = "createInvoice" THEN "updateInvoice" ELSE "createInvoice"

\* C19: createInvoice and updateInvoice validate alike: a finished invocation
\* of either accepted its (customerId, amount, status) exactly when the schema
\* of the other function accepts it, with the same coerced values, and
\* otherwise reported issues on exactly the fields the other schema rejects;
\* the reported fields are never id or date.
C19_CreateAndUpdateValidateAlike ==
    \A p \in Procs :
        LET i == inv[p]
            other == safeParse(i.file, SchemaOf(i.file, OtherOp(i.op)), Submitted(i))
        IN  (Validates(i) /\ i.pc = "done") =>
                /\ InTrace(i, "validated") <=> other.success
                /\ InTrace(i, "invalid") <=> ~other.success
                /\ InTrace(i, "validated") => i.data = other.data
                /\ InTrace(i, "invalid") =>
                       RejectedFields(i) =
                           {other.issues[k].path : k \in 1..Len(other.issues)}
                /\ RejectedFields(i) \subseteq FieldNames

C19_Witness ==
    \E p \in Procs :
        /\ inv[p].op = "updateInvoice"
        /\ inv[p].pc = "done"
        /\ InTrace(inv[p], "invalid")
        /\ RejectedFields(inv[p]) = {"customerId", "status"}

\* the entries of the form that carry one of the three names the function reads
ReadEntries(formData) ==
    [name \in DOMAIN formData \cap FieldNames |-> formData[name]]

\* C20: in createInvoice (part_004) extraction and validation never throw:
\* formData.get yields null for an absent name, each absent field is reported
\* in the returned field error map, an invocation ends with a thrown outcome
\* only after its write was attempted, and the returned error map is the one
\* of the three read entries alone, whatever else the form carries.
C20_ExtractionIsTotal ==
    \A p \in Procs :
        LET i == inv[p]
        IN  (i.op = "createInvoice" /\ i.file = "part_004" /\ i.pc = "done") =>
                /\ \A f \in FieldNames :
                       /\ (f \notin DOMAIN i.formData) <=> (Submitted(i)[f] = Null)
                       /\ (f \notin DOMAIN i.formData) =>
                              /\ IsValidationFailure(i.outcome)
                              /\ f \in DOMAIN i.outcome.value.errors
                /\ i.outcome.kind = "thrown" => Count(i, WriteEvents) = 1
                /\ LET invalid == {f \in FieldNames :
                                      ParseField(i.file, f,
                                          IF f \in DOMAIN i.formData
                                          THEN StringValue(ReadEntries(i.formData)[f])
                                          ELSE Null) # << >>}
                   IN  IF invalid = {}
                       THEN InTrace(i, "validated")
                       ELSE /\ IsValidationFailure(i.outcome)
                            /\ DOMAIN i.outcome.value.errors = invalid

C20_Witness ==
    \E p \in Procs :
        /\ inv[p].op = "createInvoice" /\ inv[p].file = "part_004"
        /\ inv[p].pc = "done"
        /\ DOMAIN inv[p].formData = {"id"}
        /\ IsValidationFailure(inv[p].outcome)
        /\ DOMAIN inv[p].outcome.value.errors = FieldNames

\* the three columns an invocation writes, and the three columns of a row
WrittenFields(i) ==
    [customer_id |-> i.data.customerId, amount |-> i.amountInCents, status |-> i.data.status]

RowFields(r) == [customer_id |-> r.customer_id, amount |-> r.amount, status |-> r.status]

\* both processes run updateInvoice on the same id, with different forms
TwoUpdatesOfOneRow ==
    /\ \A p \in Procs : inv[p].op = "updateInvoice" /\ inv[p].id = TargetId
    /\ inv[1].formData # inv[2].formData

\* neither the sql statement nor revalidatePath of the invocation has thrown
NothingThrew(i) == ~InTrace(i, "write_failed") /\ ~InTrace(i, "revalidate_failed")

\* C18: for two concurrent updateInvoice invocations on the same id with
\* valid, different forms, in every interleaving: each UPDATE leaves the row
\* with exactly the three fields of the invocation that issued it and no
\* other step changes the table (so the row is always that of the last
\* writer); and when both have finished, the sql client and revalidatePath
\* having thrown in neither, both ended with the redirect signal and the row
\* holds the three fields of one of them, not a mixture.
C18_LastWriterWins ==
    /\ [](TwoUpdatesOfOneRow =>
            /\ \A r \in store :
                   (r.id = TargetId /\ \E p \in Procs : InTrace(inv[p], "write_ok")) =>
                       \E p \in Procs :
                           InTrace(inv[p], "write_ok") /\ RowFields(r) = WrittenFields(inv[p])
            /\ (\A p \in Procs : inv[p].pc = "done" /\ NothingThrew(inv[p])) =>
                   \A p \in Procs : inv[p].outcome = Thrown(RedirectSignal))
    /\ [][TwoUpdatesOfOneRow =>
            \A p \in Procs :
                inv'[p] # inv[p] =>
                    IF IsWriteStep(p)
                    THEN \A r \in store' :
                             r.id = TargetId => RowFields(r) = WrittenFields(inv[p])
                    ELSE store' = store]_vars

C18_Witness ==
    /\ TwoUpdatesOfOneRow
    /\ \A p \in Procs : inv[p].pc = "done" /\ inv[p].outcome = Thrown(RedirectSignal)
    /\ inv[1].data.status # inv[2].data.status
    /\ inv[1].amountInCents # inv[2].amountInCents
    /\ \E r \in store : r.id = TargetId /\ RowFields(r) = WrittenFields(inv[1])

\* the stored amount a taken to the edit form and back: (a / 100) as the
\* string of the form field, coerced and multiplied by 100 again
RoundTrip(a) == Times100(Number(StringValue(NumberToString(Div100(a)))))

\* C21: every amount that was written from a decimal of at most two
\* fractional digits is stable under the round trip: dividing it by 100
\* gives back the double of the submitted decimal, whose string times 100 is
\* the stored amount again; and the updateInvoice that submits the edit form
\* as pre-populated writes the amount the row already holds.
C21_MinorUnitsRoundTrip ==
    /\ [](\A r \in store : Div100(r.amount).off = 0 /\ RoundTrip(r.amount) = r.amount)
    /\ [][\A p \in Procs :
            (inv[p].op = "updateInvoice" /\ IsWriteStep(p)) =>
                /\ inv[p].amountInCents = RoundTrip(inv[p].amountInCents)
                /\ \A r \in store : r.id = inv[p].id =>
                       r.amount = inv[p].amountInCents /\ r \in store']_vars

C21_Witness ==
    \E p \in Procs :
        /\ inv[p].op = "updateInvoice"
        /\ inv[p].pc = "done"
        /\ InTrace(inv[p], "write_ok")
        /\ inv[p].formData["amount"] = Str_4_35
        /\ \E r \in store : r.id = inv[p].id /\ r.amount = inv[p].amountInCents
                              /\ ~IsInteger(r.amount)

\* the submitted credentials are well-formed: an email address and a
\* password of at least six characters
WellFormedEmails == {Str_u_x_io, Str_s_x_io, Str_o_x_io}
WellFormed(credentials) ==
    /\ "email" \in DOMAIN credentials /\ credentials["email"] \in WellFormedEmails
    /\ "password" \in DOMAIN credentials /\ Len(credentials["password"]) >= 6

QueryEvents == {"query", "query_failed"}

\* C22: an authorize call whose credentials fail format validation (email
\* missing or not an email address, password missing or shorter than six
\* characters) never reaches the SELECT of getUser, and returns null.
C22_MalformedCredentialsNeverQuery ==
    \A p \in Procs :
        LET i == inv[p]
        IN  (i.fn = "authorize" /\ ~WellFormed(i.credentials)) =>
                /\ \A e \in QueryEvents : ~InTrace(i, e)
                /\ i.pc \notin {"getUser", "compare"}
                /\ i.pc = "done" => i.outcome = Returned(Null)

C22_Witness ==
    \E p \in Procs :
        /\ inv[p].fn = "authorize"
        /\ inv[p].pc = "done"
        /\ inv[p].credentials = Entry("email", Str_s_x_io) @@ Entry("password", Str_12345)
        /\ inv[p].outcome = Returned(Null)
        /\ inv[p].trace = <<"malformed">>

\* the paths of the model that start with /dashboard
DashboardPaths == {Str_dashboard, Str_dashboard_invoices, Str_dashboards}

\* C23: the authorized callback decides a request for a path starting with
\* /dashboard as true when a user is logged in and false otherwise, a request
\* for any other path as a redirect to /dashboard when a user is logged in and
\* as true otherwise; a logged-in session exists only after an authorize call
\* returned its user.
C23_AuthorizedDecisionTable ==
    \A p \in Procs :
        LET i == inv[p]
            loggedIn == i.session # NullAuth
        IN  /\ loggedIn => i.session.user \in Users
            /\ (i.fn = "authorized" /\ i.pc = "done") =>
                  i.outcome =
                      Returned(IF i.pathname \in DashboardPaths
                               THEN (IF loggedIn THEN Allow ELSE Deny)
                               ELSE (IF loggedIn THEN ResponseRedirect(Str_dashboard)
                                     ELSE Allow))

C23_Witness ==
    \E p \in Procs :
        /\ inv[p].fn = "authorized"
        /\ inv[p].pc = "done"
        /\ inv[p].pathname = Str_dashboard_invoices
        /\ inv[p].session = NullAuth
        /\ inv[p].outcome = Returned(Deny)

\* C24: an authorize call returns a user only when the credentials are
\* well-formed, that user is the row of the table with the submitted email
\* and the submitted password is the one its hash was made from; a call that
\* returns anything else returns null; and a call whose SELECT failed ends
\* with the thrown 'Failed to fetch user.' error, as no other call does.
C24_UserOnlyForMatchingCredentials ==
    \A p \in Procs :
        LET i == inv[p]
        IN  (i.fn = "authorize" /\ i.pc = "done") =>
                /\ i.outcome.kind = "returned" =>
                     \/ i.outcome.value = Null
                     \/ /\ WellFormed(i.credentials)
                        /\ i.outcome.value \in store
                        /\ i.outcome.value.email = i.credentials["email"]
                        /\ i.outcome.value.password.of = i.credentials["password"]
                /\ InTrace(i, "query_failed") <=> i.outcome = Thrown(FetchUserError)
                /\ i.outcome.kind = "thrown" => i.outcome = Thrown(FetchUserError)

C24_Witness ==
    \E p \in Procs :
        /\ inv[p].fn = "authorize"
        /\ inv[p].pc = "done"
        /\ inv[p].credentials = Entry("email", Str_u_x_io) @@ Entry("password", Str_secret)
        /\ inv[p].outcome.kind = "returned"
        /\ inv[p].outcome.value \in Users

\* the columns of the row are ones the schema accepts: a status of the enum
\* and an amount greater than 0
AcceptableRow(r) ==
    /\ r.status \in {Str_pending, Str_paid}
    /\ r.amount.k \in {"num", "inf"} /\ ~r.amount.neg
    /\ r.amount.k = "num" => r.amount.c > 0

\* C25: under part_004 every row of the table has a status in {pending,
\* paid} and an amount greater than 0 at all times, and every INSERT and
\* UPDATE writes a customer_id that was submitted (not null), from a
\* submission in which no field is invalid.
C25_StoredInvoicesSatisfySchema ==
    /\ [](revision = "part_004" => \A r \in store : AcceptableRow(r))
    /\ [][revision = "part_004" =>
            \A p \in Procs :
                (Validates(inv[p]) /\ IsWriteStep(p)) =>
                    /\ Submitted(inv[p]).customerId # Null
                    /\ inv[p].data.customerId = Submitted(inv[p]).customerId.v
                    /\ inv[p].data.status \in {Str_pending, Str_paid}
                    /\ ~inv[p].amountInCents.neg /\ inv[p].amountInCents.c > 0]_vars

C25_Witness ==
    /\ revision = "part_004"
    /\ started = 2
    /\ \A p \in SeqProcs : inv[p].pc = "done" /\ inv[p].op = "updateInvoice"
                             /\ InTrace(inv[p], "write_ok") /\ inv[p].id = 2
    /\ \E r \in store : r.id = 2 /\ r.customer_id = Str_empty /\ r.status = Str_paid

\* C26: two createInvoice invocations (part_004) with the same form, the
\* same behaviour of the store and of revalidatePath (same events, same
\* logged errors) and the same date, but different prevState, end with the
\* same outcome and write the same record: same validated data, same amount
\* in cents, and, when both wrote, two new rows alike in every column but id.
C26_OutcomeIndependentOfPrevState ==
    \A p, q \in Procs :
        LET i == inv[p]
            j == inv[q]
        IN  (/\ i.op = "createInvoice" /\ j.op = "createInvoice"
             /\ i.pc = "done" /\ j.pc = "done"
             /\ i.formData = j.formData
             /\ i.prevState # j.prevState
             /\ i.trace = j.trace /\ i.console = j.console /\ i.date = j.date) =>
                /\ i.outcome = j.outcome
                /\ i.data = j.data /\ i.amountInCents = j.amountInCents
                /\ InTrace(i, "write_ok") =>
                     LET new == store \ InitialRows
                     IN  /\ Cardinality(new) = 2
                         /\ \A r \in new :
                                /\ RowFields(r) = WrittenFields(i)
                                /\ r.date = i.date

C26_Witness ==
    /\ inv[1].op = "createInvoice" /\ inv[2].op = "createInvoice"
    /\ inv[1].pc = "done" /\ inv[2].pc = "done"
    /\ inv[1].prevState = InitialState /\ inv[2].prevState = FailedState
    /\ inv[1].trace = inv[2].trace
    /\ IsValidationFailure(inv[1].outcome)
    /\ inv[1].outcome = inv[2].outcome

\* C27: the successful INSERT of createInvoice adds exactly one row, with an
\* id no row had, and keeps every row there was; the successful DELETE of
\* deleteInvoice(id) removes no row but the one with that id; no other step
\* of an invocation changes the table, and no step of an invocation whose
\* submission has an invalid field does.
C27_WritesTouchOnlyTheirRecord ==
    [][\A p \in Procs :
          inv'[p] # inv[p] /\ inv[p].pc # "idle" =>
              /\ (inv[p].op = "createInvoice" /\ IsWriteStep(p)) =>
                     /\ store \subseteq store'
                     /\ Cardinality(store' \ store) = 1
                     /\ \A r \in store' \ store : \A old \in store : old.id # r.id
              /\ (inv[p].op = "deleteInvoice" /\ IsWriteStep(p)) =>
                     /\ store' \subseteq store
                     /\ \A r \in store \ store' : r.id = inv[p].id
                     /\ \A r \in store' : r.id # inv[p].id
              /\ ~IsWriteStep(p) => store' = store
              /\ (Validates(inv[p]) /\ InvalidFields(inv[p]) # {}) => store' = store]_vars

C27_Witness ==
    \E p \in Procs :
        /\ inv[p].op = "deleteInvoice"
        /\ inv[p].pc = "done"
        /\ inv[p].id = 2
        /\ InTrace(inv[p], "write_ok")
        /\ store = InitialRows

\* the rows that were inserted since the table was set up
InsertedRows == {r \in store : r.id \notin {old.id : old \in InitialRows}}

\* the createInvoice invocations whose INSERT has succeeded
Creators == {p \in Procs : inv[p].op = "createInvoice" /\ InTrace(inv[p], "write_ok")}

\* C28: with createInvoice invocations running concurrently on valid forms,
\* in every interleaving the table holds one inserted row for each invocation
\* whose INSERT succeeded, with that invocation's columns (no row is lost or
\* overwritten), and every such invocation in which neither the sql client
\* nor revalidatePath threw has called revalidatePath once and then raised
\* its redirect signal.
C28_ConcurrentCreatesAllPresent ==
    /\ Cardinality(InsertedRows) = Cardinality(Creators)
    /\ \A p \in Creators :
           \E r \in InsertedRows :
               RowFields(r) = WrittenFields(inv[p]) /\ r.date = inv[p].date
    /\ \A r \in InsertedRows :
           \E p \in Creators : RowFields(r) = WrittenFields(inv[p])
    /\ \A p \in Procs :
           (inv[p].op = "createInvoice" /\ inv[p].pc = "done" /\ NothingThrew(inv[p])) =>
               /\ StageTrace(inv[p]) = PathNavigationSignaled
               /\ inv[p].outcome = Thrown(RedirectSignal)

C28_Witness ==
    /\ \A p \in Procs :
           /\ inv[p].op = "createInvoice" /\ inv[p].pc = "done"
           /\ inv[p].outcome = Thrown(RedirectSignal)
    /\ inv[1].formData = inv[2].formData
    /\ Cardinality(InsertedRows) = 2

\* C29: when an updateInvoice and a deleteInvoice run concurrently on the
\* same existing row and the statements of both have succeeded, the table has
\* no row with that id, whichever statement ran last; once the row is gone no
\* step brings it back.
C29_UpdateNeverRecreatesDeleted ==
    /\ [](\A p, q \in Procs :
            (/\ inv[p].op = "updateInvoice" /\ inv[q].op = "deleteInvoice"
             /\ inv[p].id = inv[q].id
             /\ InTrace(inv[p], "write_ok") /\ InTrace(inv[q], "write_ok")) =>
                \A r \in store : r.id # inv[p].id)
    /\ [][\A id \in {TargetId} :
            (\A r \in store : r.id # id) => (\A r \in store' : r.id # id)]_vars

C29_Witness ==
    /\ inv[1].op = "updateInvoice" /\ inv[2].op = "deleteInvoice"
    /\ inv[1].pc = "done" /\ inv[2].pc = "done"
    /\ inv[1].trace = <<"validated", "transformed", "write_ok", "revalidated", "redirect">>
    /\ inv[2].trace = <<"write_ok", "revalidated">>
    /\ store = {}

====
